---- MODULE Spec2Model ----
(***************************************************************************)
(* Streaming protocol of server3-langgraph.                                *)
(*                                                                         *)
(*   Consumer: apps/web/src/providers/StreamLocal.tsx (useLocalStream,     *)
(*             StreamProvider)                                             *)
(*   Producer: apps/web/src/app/api/agents/[agentId]/stream/route.ts (POST)*)
(*                                                                         *)
(* JavaScript runs one task at a time, so every action below is the code   *)
(* that runs between two awaits of the handler it models.                  *)
(***************************************************************************)
EXTENDS Integers, Sequences, FiniteSets, TLC

\* ------------------------------------------------------------------ bounds
\* submit() calls made on one hook instance
MaxSubs == 2
\* data lines delivered to one submission's reader
MaxLines == 2
\* events the Executor yields in one request
MaxEvents == 2
\* requests the Producer serves
MaxRequests == 2

\* ------------------------------------------------------------------ values
None == "none"
ThreadIds == {"t1", "t2"}
\* crypto.randomUUID() draws from these
UUIDs == {"u1", "u2"}
\* message content: 0 is the empty (falsy) content
Contents == {0, 1, 2}

Subs == 1..MaxSubs

\* agentMetadata keys (packages/core/src/agents/metadata.ts)
agentMetadata == {"memory-agent", "react-agent", "research-agent", "retrieval-agent"}
\* agentMap keys (packages/core/src/agents/index.ts)
agentMap == {"memory-agent", "react-agent", "research-agent", "retrieval-agent"}

\* ---------------------------------------------------------------- messages
\* A message as it travels in a frame: plain {type, content}, or the
\* serialized LangChain form {lc, id: [.., .., cls], kwargs: {content}}.
\* turn and src are labels saying which submission carried the message and
\* whether it came in a frame or in submit's payload; the code never reads them.
PlainMsg(t, c, s) ==
  [lc |-> FALSE, cls |-> "", type |-> t, content |-> c, turn |-> s, src |-> "frame"]
LcMsg(cls, c, s) ==
  [lc |-> TRUE, cls |-> cls, type |-> "constructor", content |-> c, turn |-> s,
   src |-> "frame"]
\* A message of submit's payload, kept in state as the caller gave it
PayloadMsg(t, c, s) == [type |-> t, content |-> c, turn |-> s, src |-> "payload"]

\* String.prototype.toLowerCase on the class names that occur
toLowerCase(cls) ==
  CASE cls = "AIMessage" -> "aimessage"
    [] cls = "AIMessageChunk" -> "aimessagechunk"
    [] cls = "HumanMessage" -> "humanmessage"
    [] cls = "ToolMessage" -> "toolmessage"
    [] OTHER -> cls

\* transformLangChainMessage
transformLangChainMessage(m) ==
  IF m.lc
    THEN [type |-> IF m.cls # "" THEN toLowerCase(m.cls) ELSE "ai",
          content |-> m.content, turn |-> m.turn, src |-> m.src]
    ELSE [type |-> m.type, content |-> m.content, turn |-> m.turn, src |-> m.src]

\* Array.prototype.map(transformLangChainMessage)
MapTransform(ms) == [i \in 1..Len(ms) |-> transformLangChainMessage(ms[i])]

IsAi(m) == m.type = "ai"
\* the content test letting every message through
HasContent_Always(m) == TRUE
HasContent(m) == m.content # 0

\* Array.prototype.findLastIndex(m => m.type === 'ai'), 1-based; 0 when absent
findLastAiIndex(ms) ==
  LET idx == {i \in DOMAIN ms : IsAi(ms[i])}
  IN IF idx = {} THEN 0 ELSE CHOOSE i \in idx : \A j \in idx : j <= i

\* mergeMessages taking the first AI message of the batch, not the last
mergeMessages_FirstAi(existingMessages, newMessages) ==
  IF newMessages = <<>> THEN existingMessages
  ELSE
    LET validNewMessages == SelectSeq(newMessages, HasContent)
        aiMessages == SelectSeq(validNewMessages, IsAi)
        lastAiIndex == findLastAiIndex(existingMessages)
    IN IF validNewMessages = <<>> THEN existingMessages
       ELSE IF aiMessages # <<>>
         THEN IF lastAiIndex > 0
                THEN [existingMessages EXCEPT ![lastAiIndex] = aiMessages[1]]
                ELSE Append(existingMessages, aiMessages[1])
         ELSE existingMessages \o validNewMessages

\* mergeMessages(existingMessages, newMessages)
mergeMessages(existingMessages, newMessages) ==
  IF newMessages = <<>> THEN existingMessages
  ELSE
    LET validNewMessages == SelectSeq(newMessages, HasContent)
        aiMessages == SelectSeq(validNewMessages, IsAi)
        lastAiIndex == findLastAiIndex(existingMessages)
    IN IF validNewMessages = <<>> THEN existingMessages
       ELSE IF aiMessages # <<>>
         THEN IF lastAiIndex > 0
                THEN [existingMessages EXCEPT ![lastAiIndex] = aiMessages[Len(aiMessages)]]
                ELSE Append(existingMessages, aiMessages[Len(aiMessages)])
         ELSE existingMessages \o validNewMessages

\* ------------------------------------------------------------------ frames
\* One line of a decoded chunk that starts with "data: ". ok says whether
\* JSON.parse of the remainder succeeds (a frame cut in two by a chunk
\* boundary, or any other malformed payload, does not parse). The fields
\* are those the reader loop looks at; "" / 0 / None stand for an absent field.
Frame(ok, tid, err, hasTop, top, nest, intr, end) ==
  [ok |-> ok, tid |-> tid, err |-> err, hasTop |-> hasTop, top |-> top,
   nest |-> nest, intr |-> intr, end |-> end]

ThreadFrame(t) == Frame(TRUE, t, "", FALSE, <<>>, <<>>, 0, FALSE)
TopFrame(ms) == Frame(TRUE, None, "", TRUE, ms, <<>>, 0, FALSE)
NestedFrame(mss) == Frame(TRUE, None, "", FALSE, <<>>, mss, 0, FALSE)
InterruptFrame == Frame(TRUE, None, "", FALSE, <<>>, <<>>, 1, FALSE)
ErrorFrame == Frame(TRUE, None, "boom", FALSE, <<>>, <<>>, 0, FALSE)
EndFrame == Frame(TRUE, None, "", FALSE, <<>>, <<>>, 0, TRUE)
Malformed(f) == [f EXCEPT !.ok = FALSE]

\* The data lines a response to submission s may deliver.
Lines(s) ==
  {TopFrame(<<PlainMsg("ai", c, s)>>) : c \in {0, 1}}
  \cup {ThreadFrame("t2"),
        [TopFrame(<<PlainMsg("ai", 2, s)>>) EXCEPT !.tid = "t2"],
        TopFrame(<<PlainMsg("tool", 1, s)>>),
        NestedFrame(<<<<LcMsg("AIMessage", 1, s)>>>>),
        InterruptFrame, ErrorFrame, EndFrame,
        Malformed(TopFrame(<<PlainMsg("ai", 2, s)>>))}

\* [...a, ...b, ...] over a sequence of arrays
RECURSIVE Flatten(_)
Flatten(mss) == IF mss = <<>> THEN <<>> ELSE Head(mss) \o Flatten(Tail(mss))

\* messagesToAdd taking the nested arrays next to a top-level one
messagesToAdd_Both(f) == f.top \o Flatten(f.nest)

\* messagesToAdd: the top-level array if there is one, else the arrays found
\* one level under the frame's keys, in key order
messagesToAdd(f) == IF f.hasTop THEN f.top ELSE Flatten(f.nest)

\* FirstFrameThreadId without firstSSEChecked set by a frame that has no
\* threadId: every frame is then taken for the first
FirstFrameThreadId_Unmarked(prop, st, f) ==
  IF prop = None /\ ~st.threadIdHandled /\ ~st.firstSSEChecked /\ f.tid # None
    THEN [st EXCEPT !.calls = Append(@, f.tid), !.threadIdHandled = TRUE,
                    !.firstSSEChecked = TRUE]
    ELSE st

\* The thread-id step of one parsed frame: prop is the hook's threadId prop, st the
\* submit call's locals (threadIdHandled, firstSSEChecked) and the callback's
\* invocations so far.
FirstFrameThreadId(prop, st, f) ==
  IF prop = None /\ ~st.threadIdHandled /\ ~st.firstSSEChecked
    THEN IF f.tid # None
           THEN [st EXCEPT !.calls = Append(@, f.tid), !.threadIdHandled = TRUE,
                           !.firstSSEChecked = TRUE]
           ELSE [st EXCEPT !.firstSSEChecked = TRUE]
    ELSE st

\* The last non-empty AI-type message of a transformed batch (0: none)
LastAiContent(batch, prev) ==
  LET ais == SelectSeq(SelectSeq(batch, HasContent), IsAi)
  IN IF ais = <<>> THEN prev ELSE ais[Len(ais)].content

\* ParseFailure leaving the for loop
ParseFailure_Breaks(st) == [st EXCEPT !.brk = TRUE]

\* catch (parseError): a warning on the console, and on to the next line
ParseFailure(st) == st

\* The body of the for loop for one line that starts with "data: ".
\* Returns the updated locals/state; brk says the loop was left by break.
\* seenErr (an error frame was parsed), seenEnd (an end sentinel was
\* processed), late (a frame processed after the end sentinel changed messages
\* or interrupt), parsed, firstTid (the threadId field of the first parsed
\* frame), lateTid (a later parsed frame carried a threadId field) and recvAi
\* (the last non-empty AI-type message reconciled) and recvIntr (the payload
\* of the last interrupt frame this call processed) record what happened and
\* are read by no code.
ProcessLine(prop, st, f) ==
  IF ~f.ok THEN ParseFailure(st)         \* JSON.parse throws
  ELSE
    LET s0 == [st EXCEPT !.firstTid = IF st.parsed THEN @ ELSE f.tid,
                         !.lateTid = @ \/ (st.parsed /\ f.tid # None),
                         !.parsed = TRUE]
        s1 == FirstFrameThreadId(prop, s0, f)
        batch == MapTransform(messagesToAdd(f))
        s2 == IF messagesToAdd(f) # <<>>
                THEN [s1 EXCEPT !.messages = mergeMessages(@, batch),
                                !.recvAi = LastAiContent(batch, @)]
                ELSE s1
        s3 == IF f.intr # 0
                THEN [s2 EXCEPT !.interrupt = f.intr,
                                !.recvIntr = f.intr,
                                !.late = @ \/ st.seenEnd]
                ELSE [s2 EXCEPT !.late = @ \/ (st.seenEnd /\ s2.messages # st.messages)]
    IN IF f.err # ""
         THEN [s1 EXCEPT !.seenErr = TRUE]   \* throw, caught by the per-line catch
         ELSE IF f.end THEN [s3 EXCEPT !.brk = TRUE, !.seenEnd = TRUE]
         ELSE s3

\* for (const line of lines) { ... }
RECURSIVE ProcessLines(_, _, _)
ProcessLines(prop, st, lines) ==
  IF lines = <<>> \/ st.brk THEN st
  ELSE ProcessLines(prop, ProcessLine(prop, st, Head(lines)), Tail(lines))

\* ---------------------------------------------------------------- consumer
VARIABLES
  messages,            \* values.messages
  isLoading,           \* the isLoading state
  error,               \* the error state (None: undefined)
  interrupt,           \* the interrupt state (0: undefined)
  abortControllerRef,  \* abortControllerRef.current: 0 (null) or a controller
  aborted,             \* the controllers whose signal is aborted
  rendered,            \* what the submit closure of the last render captured
  threadId,            \* StreamProvider's threadId state (the hook's prop)
  assistantId,         \* the hook's assistantId prop
  nSubs,               \* submit() calls made so far
  sub                  \* per submit() call: its position, locals and response

cvars == <<messages, isLoading, error, interrupt, abortControllerRef, aborted,
           rendered, threadId, assistantId, nSubs, sub>>

\* A submit() call that has not been made yet. Controller s is the
\* AbortController that call s creates. resp records which of the checks on
\* the response the call got to ("not-ok", "no-body", "ok") and base the
\* length of the message list when the call was made, taken says that the
\* Producer has received the call's request; no code reads them.
NoSub ==
  [pc |-> "none", outcome |-> None, threadId |-> None, header |-> None,
   threadIdHandled |-> FALSE, firstSSEChecked |-> FALSE, calls |-> <<>>,
   reader |-> "none", nread |-> 0, raced |-> FALSE,
   seenErr |-> FALSE, seenEnd |-> FALSE, late |-> FALSE, parsed |-> FALSE,
   firstTid |-> None, lateTid |-> FALSE, recvAi |-> 0, recvIntr |-> 0,
   resp |-> "none", base |-> 0, taken |-> FALSE]

InFlight(s) == sub[s].pc \in {"fetching", "reading"}

CInit ==
  /\ messages = <<>>
  /\ isLoading = FALSE
  /\ error = None
  /\ interrupt = 0
  /\ abortControllerRef = 0
  /\ aborted = {}
  /\ threadId \in {None, "t0"}
  /\ rendered = [isLoading |-> FALSE, threadId |-> threadId]
  /\ assistantId \in {"memory-agent", "invalid-agent"}
  /\ nSubs = 0
  /\ sub = [s \in Subs |-> NoSub]

\* validateAgent that never throws
validateAgent_Always(id) == TRUE

\* validateAgent: TRUE when it returns, FALSE when it throws
validateAgent(id) == id \in agentMetadata

\* NotAborted with the negation lost
NotAborted_Negated(ref, ab) == ref # 0 /\ ref \in ab

\* The test of submit's finally block: !abortControllerRef.current?.signal.aborted
NotAborted(ref, ab) == ref = 0 \/ ref \notin ab

\* Exit with the AbortError test of the catch block lost
Exit_AbortSurfaced(s, r, ref, err, abort) ==
  /\ error' = IF err # None THEN err ELSE error
  /\ IF NotAborted(ref, aborted)
       THEN isLoading' = FALSE /\ abortControllerRef' = 0
       ELSE isLoading' = isLoading /\ abortControllerRef' = ref
  /\ sub' = [sub EXCEPT ![s] =
               [r EXCEPT !.pc = "done",
                         !.outcome = IF abort THEN "aborted"
                                     ELSE IF err # None THEN "errored"
                                     ELSE "completed"]]

\* submit's catch and finally blocks, run by call s with locals r. err is
\* the error caught (None: nothing thrown), abort says it is an AbortError.
Exit(s, r, ref, err, abort) ==
  /\ error' = IF err # None /\ ~abort THEN err ELSE error
  /\ IF NotAborted(ref, aborted)
       THEN isLoading' = FALSE /\ abortControllerRef' = 0
       ELSE isLoading' = isLoading /\ abortControllerRef' = ref
  /\ sub' = [sub EXCEPT ![s] =
               [r EXCEPT !.pc = "done",
                         !.outcome = IF abort THEN "aborted"
                                     ELSE IF err # None THEN "errored"
                                     ELSE "completed"]]

\* The payloads submit() is called with
Payloads(s) ==
  {<<>>, <<PayloadMsg("human", 1, s)>>,
   <<PayloadMsg("human", 2, s), PayloadMsg("ai", 1, s)>>}

CorePayloads(s) == {<<PayloadMsg("human", 1, s)>>}

\* submit(payload, options), up to its first await
submit(payload) ==
  /\ nSubs < MaxSubs
  /\ LET s == nSubs + 1 IN
     /\ nSubs' = s
     /\ IF rendered.isLoading
          THEN /\ sub' = [sub EXCEPT ![s] = [NoSub EXCEPT !.pc = "rejected"]]
               /\ UNCHANGED <<messages, isLoading, error, interrupt,
                              abortControllerRef>>
          ELSE /\ interrupt' = 0
               /\ IF validateAgent(assistantId)
                    THEN /\ isLoading' = TRUE
                         /\ error' = None
                         /\ abortControllerRef' = s
                         /\ messages' = messages \o payload
                         /\ sub' = [sub EXCEPT ![s] =
                                      [NoSub EXCEPT !.pc = "fetching",
                                                    !.threadId = rendered.threadId,
                                                    !.base = Len(messages)]]
                    ELSE /\ Exit(s, NoSub, s, "agent-not-found", FALSE)
                         /\ messages' = messages
  /\ UNCHANGED <<aborted, rendered, threadId, assistantId>>

\* stop() without abortControllerRef.current = null
stop_KeepsRef(raced) ==
  /\ IF abortControllerRef # 0
       THEN /\ aborted' = aborted \cup {abortControllerRef}
            /\ sub' = [sub EXCEPT ![abortControllerRef].raced =
                         raced /\ InFlight(abortControllerRef)]
       ELSE /\ raced = FALSE
            /\ UNCHANGED <<aborted, sub>>
  /\ abortControllerRef' = abortControllerRef
  /\ isLoading' = FALSE
  /\ UNCHANGED <<messages, error, interrupt, rendered, threadId, assistantId,
                 nSubs>>

\* stop(). raced says that the promise the aborted call awaits had already
\* resolved when stop() ran (its continuation is queued), so that call still
\* receives the resolved value instead of an AbortError.
stop(raced) ==
  /\ IF abortControllerRef # 0
       THEN /\ aborted' = aborted \cup {abortControllerRef}
            /\ sub' = [sub EXCEPT ![abortControllerRef].raced =
                         raced /\ InFlight(abortControllerRef)]
       ELSE /\ raced = FALSE
            /\ UNCHANGED <<aborted, sub>>
  /\ abortControllerRef' = 0
  /\ isLoading' = FALSE
  /\ UNCHANGED <<messages, error, interrupt, rendered, threadId, assistantId,
                 nSubs>>

\* React renders the hook again: useCallback builds a submit closure over
\* the current isLoading and threadId
Render ==
  /\ rendered # [isLoading |-> isLoading, threadId |-> threadId]
  /\ rendered' = [isLoading |-> isLoading, threadId |-> threadId]
  /\ UNCHANGED <<messages, isLoading, error, interrupt, abortControllerRef,
                 aborted, threadId, assistantId, nSubs, sub>>

\* The branch that the last console.log of setBranch wrote (None: no call)
VARIABLE branchLogged

\* setBranch that starts the thread over
setBranch_Resets(branch) ==
  /\ branchLogged' = branch
  /\ messages' = <<>>
  /\ UNCHANGED <<isLoading, error, interrupt, abortControllerRef, aborted,
                 rendered, threadId, assistantId, nSubs, sub>>

\* setBranch(branch): a line on the console
setBranch(branch) ==
  /\ branchLogged' = branch
  /\ UNCHANGED cvars

\* A JavaScript value written out, where values of several types can occur
Undefined == "undefined"

\* message.id || ''
messageId(message) == IF "id" \in DOMAIN message THEN message.id ELSE ""

\* getMessagesMetadata(message, index)
getMessagesMetadata(message) ==
  [messageId |-> messageId(message), firstSeenState |-> Undefined,
   branch |-> Undefined, branchOptions |-> Undefined]

\* The interrupt the hook exposes: interrupt ? {when: 'now', value: interrupt}
\* : undefined (written as when "none", value 0)
exposedInterrupt(intr) ==
  IF intr # 0 THEN [when |-> "now", value |-> intr]
  ELSE [when |-> "none", value |-> 0]

\* useLocalStream with an empty list for messages
useLocalStream_MessagesEmpty ==
  [values |-> [messages |-> messages, ui |-> <<>>],
   error |-> error,
   isLoading |-> isLoading,
   branch |-> "main",
   history |-> <<>>,
   experimental_branchTree |-> [type |-> "sequence", items |-> <<>>],
   interrupt |-> exposedInterrupt(interrupt),
   messages |-> <<>>,
   assistantId |-> assistantId]

\* The object useLocalStream returns (its data fields). values.ui is the []
\* of useState, which every setValues carries over with ...prev.
useLocalStream ==
  [values |-> [messages |-> messages, ui |-> <<>>],
   error |-> error,
   isLoading |-> isLoading,
   branch |-> "main",
   history |-> <<>>,
   experimental_branchTree |-> [type |-> "sequence", items |-> <<>>],
   interrupt |-> exposedInterrupt(interrupt),
   messages |-> messages,
   assistantId |-> assistantId]

\* What an await of call s may deliver: a rejection with AbortError once the
\* call's signal is aborted, its value otherwise (or when it had resolved
\* before the abort)
MayReject(s) == s \in aborted /\ ~sub[s].raced
MayDeliver(s) == s \notin aborted \/ sub[s].raced

\* The responses fetch may resolve with
Responses ==
  [ok : BOOLEAN, hasBody : BOOLEAN, header : {None, "t1"}]

\* HeaderThreadId without the test of the supplied thread id
HeaderThreadId_Unguarded(prop, st, header) ==
  IF header # None
    THEN [st EXCEPT !.calls = Append(@, header), !.threadIdHandled = TRUE]
    ELSE st

\* Thread id from the response header (prop is the hook's threadId prop)
HeaderThreadId(prop, st, header) ==
  IF prop = None /\ header # None
    THEN [st EXCEPT !.calls = Append(@, header), !.threadIdHandled = TRUE]
    ELSE st

\* onThreadId is StreamProvider's setThreadId: the last id a call passed to
\* it becomes the provider's state
AfterCalls(before, after) ==
  IF Len(after) > Len(before) THEN after[Len(after)] ELSE threadId

\* await fetch(...) rejects: with AbortError (abort), or a network failure
fetchRejected(s, abort) ==
  /\ sub[s].pc = "fetching"
  /\ IF abort THEN MayReject(s) ELSE MayDeliver(s)
  /\ Exit(s, [sub[s] EXCEPT !.raced = FALSE], abortControllerRef,
          "network-failure", abort)
  /\ UNCHANGED <<messages, interrupt, aborted, rendered, threadId,
                 assistantId, nSubs>>

\* fetchResolved with the header's thread id taken before the status and
\* body checks
fetchResolved_HeaderFirst(s, resp) ==
  /\ sub[s].pc = "fetching"
  /\ MayDeliver(s)
  /\ LET r == [sub[s] EXCEPT !.header = resp.header, !.raced = FALSE,
                             !.resp = IF ~resp.ok THEN "not-ok"
                                      ELSE IF ~resp.hasBody THEN "no-body"
                                      ELSE "ok"]
         r2 == HeaderThreadId(r.threadId, r, resp.header)
     IN /\ threadId' = AfterCalls(r.calls, r2.calls)
        /\ IF ~resp.ok
             THEN Exit(s, r2, abortControllerRef, "api-request-failed", FALSE)
           ELSE IF ~resp.hasBody
             THEN Exit(s, r2, abortControllerRef, "no-response-body", FALSE)
           ELSE /\ sub' = [sub EXCEPT ![s] =
                             [r2 EXCEPT !.pc = "reading", !.reader = "locked"]]
                /\ UNCHANGED <<isLoading, error, abortControllerRef>>
  /\ UNCHANGED <<messages, interrupt, aborted, rendered, assistantId, nSubs>>

\* await fetch(...) resolves with resp: the status and body checks, the
\* header's thread id, getReader(), up to the first reader.read()
fetchResolved(s, resp) ==
  /\ sub[s].pc = "fetching"
  /\ MayDeliver(s)
  /\ LET r == [sub[s] EXCEPT !.header = resp.header, !.raced = FALSE,
                             !.resp = IF ~resp.ok THEN "not-ok"
                                      ELSE IF ~resp.hasBody THEN "no-body"
                                      ELSE "ok"]
         r2 == HeaderThreadId(r.threadId, r, resp.header)
     IN IF ~resp.ok
          THEN /\ Exit(s, r, abortControllerRef, "api-request-failed", FALSE)
               /\ threadId' = threadId
          ELSE IF ~resp.hasBody
          THEN /\ Exit(s, r, abortControllerRef, "no-response-body", FALSE)
               /\ threadId' = threadId
          ELSE /\ sub' = [sub EXCEPT ![s] =
                            [r2 EXCEPT !.pc = "reading", !.reader = "locked"]]
               /\ threadId' = AfterCalls(r.calls, r2.calls)
               /\ UNCHANGED <<isLoading, error, abortControllerRef>>
  /\ UNCHANGED <<messages, interrupt, aborted, rendered, assistantId, nSubs>>

\* releaseLock leaving the lock held
releaseLock_Skipped(r) == [r EXCEPT !.raced = FALSE]

\* reader.releaseLock() in the inner finally
releaseLock(r) == [r EXCEPT !.reader = "released", !.raced = FALSE]

\* await reader.read() rejects: AbortError (abort), or the stream errored
readRejected(s, abort) ==
  /\ sub[s].pc = "reading"
  /\ IF abort THEN MayReject(s) ELSE MayDeliver(s)
  /\ Exit(s, releaseLock(sub[s]), abortControllerRef, "stream-error", abort)
  /\ UNCHANGED <<messages, interrupt, aborted, rendered, threadId,
                 assistantId, nSubs>>

\* await reader.read() resolves {done: true}
readDone(s) ==
  /\ sub[s].pc = "reading"
  /\ MayDeliver(s)
  /\ Exit(s, releaseLock(sub[s]), abortControllerRef, None, FALSE)
  /\ UNCHANGED <<messages, interrupt, aborted, rendered, threadId,
                 assistantId, nSubs>>

\* The sequences of at most n elements of S
SeqsUpTo(S, n) == UNION {[1..k -> S] : k \in 1..n}

\* What the for loop of call s works on: the call's locals, and the messages
\* and interrupt its state updates apply to
ReaderState(s) ==
  [f \in DOMAIN NoSub \cup {"messages", "interrupt", "brk"} |->
     CASE f = "messages" -> messages
       [] f = "interrupt" -> interrupt
       [] f = "brk" -> FALSE
       [] OTHER -> sub[s][f]]

\* await reader.read() resolves a chunk whose data lines are lines: decode,
\* split, the for loop over the lines, and back to reader.read()
readChunk(s, lines) ==
  /\ sub[s].pc = "reading"
  /\ MayDeliver(s)
  /\ sub[s].nread + Len(lines) <= MaxLines
  /\ LET res == ProcessLines(sub[s].threadId, ReaderState(s), lines)
     IN /\ messages' = res.messages
        /\ interrupt' = res.interrupt
        /\ threadId' = AfterCalls(sub[s].calls, res.calls)
        /\ sub' = [sub EXCEPT ![s] =
                     [f \in DOMAIN NoSub |->
                        CASE f = "nread" -> sub[s].nread + Len(lines)
                          [] f = "raced" -> FALSE
                          [] OTHER -> res[f]]]
  /\ UNCHANGED <<isLoading, error, abortControllerRef, aborted, rendered,
                 assistantId, nSubs>>

\* ---------------------------------------------------------------- producer
VARIABLES
  pPc,            \* "idle", "streaming", "closed", "errored" or "responded"
  pReq,           \* the request being served
  pStatus,        \* the response's status (0: no response yet)
  pHeader,        \* the response's x-thread-id header (None: not set)
  pJson,          \* the error of a JSON response (None: not a JSON response)
  pBody,          \* the frames enqueued on the response stream, in order
  finalThreadId,  \* POST's finalThreadId (None: not resolved)
  pUserId,        \* graphConfig.configurable.userId
  pConfig,        \* graphConfig.configurable, as passed to graph.stream
  pInvoked,       \* calls of graph.stream made for this request
  pYielded,       \* the events the Executor has yielded to the for-await loop
  pFailed,        \* the Executor threw while the response was streaming
  nReqs           \* requests served so far

pvars == <<pPc, pReq, pStatus, pHeader, pJson, pBody, finalThreadId, pUserId,
           pConfig, pInvoked, pYielded, pFailed, nReqs>>

\* ----------------------------------------------------------------- history
\* The chunks reader.read() has resolved with so far, each the sequence of
\* its data lines; recorded in the runs of SpecReader, read by no code
VARIABLE fed

\* ------------------------------------------------------------- agent list
VARIABLES
  entries,         \* Object.entries(agentMetadata), as GET /api/agents reads it
  agentsResponse   \* the response of GET /api/agents (status 0: none yet)

avars == <<entries, agentsResponse>>

vars == <<cvars, pvars, fed, avars, branchLogged>>

\* Object.entries(agentMetadata) of packages/core: the four agents, each
\* with a name and a description
CoreEntries ==
  <<[id |-> "memory-agent", name |-> "Memory Agent", description |-> "text"],
    [id |-> "react-agent", name |-> "React Agent", description |-> "text"],
    [id |-> "research-agent", name |-> "Research Agent", description |-> "text"],
    [id |-> "retrieval-agent", name |-> "Retrieval Agent", description |-> "text"]>>

NoAgentsResponse == [status |-> 0, agents |-> <<>>, count |-> 0]

\* The most entries of a registry GET /api/agents is applied to
MaxAgents == 2

\* An entry of Record<string, {name: string; description?: string}>
\* (description None: the entry has none)
Entries ==
  [id : {"memory-agent", "react-agent", "research-agent"},
   name : {"Memory Agent", "Agent"},
   description : {None, "", "text"}]

\* The registries of at most MaxAgents entries: the keys of an object differ
Registries ==
  {<<>>} \cup {r \in SeqsUpTo(Entries, MaxAgents) :
                \A i, j \in DOMAIN r : i # j => r[i].id # r[j].id}

\* metadata.description taken as it is
orEmpty_Kept(description) == description

\* metadata.description || ''
orEmpty(description) ==
  IF description = None \/ description = "" THEN "" ELSE description

\* The body of GET's response
agentsBody(e) ==
  LET agents == [i \in DOMAIN e |->
                   [id |-> e[i].id, name |-> e[i].name,
                    description |-> orEmpty(e[i].description)]]
  IN [status |-> 200, agents |-> agents, count |-> Len(agents)]

\* GET /api/agents
GET ==
  /\ agentsResponse' = agentsBody(entries)
  /\ UNCHANGED entries

\* A configurable object: the keys userId and model, and one more key the
\* Producer knows nothing of (None: the key is absent). An absent
\* configurable spreads like the empty object.
NoConfig == [userId |-> None, model |-> None, extra |-> None]
Configs ==
  {NoConfig,
   [userId |-> "user123", model |-> None, extra |-> None],
   [userId |-> None, model |-> "m1", extra |-> "x"]}

DefaultModel == "anthropic/claude-3-7-sonnet-latest"

NoReq == [agentId |-> "", body |-> "none", threadId |-> None,
          configurable |-> NoConfig]

PInit ==
  /\ pPc = "idle"
  /\ pReq = NoReq
  /\ pStatus = 0
  /\ pHeader = None
  /\ pJson = None
  /\ pBody = <<>>
  /\ finalThreadId = None
  /\ pUserId = None
  /\ pConfig = NoConfig
  /\ pInvoked = 0
  /\ pYielded = <<>>
  /\ pFailed = FALSE
  /\ nReqs = 0

\* The requests POST is called with. body is "invalid-json" (request.json()
\* throws), "null" (the JSON text null), or says what the messages field of
\* the parsed object is; threadId None is an absent field, "" the empty
\* string.
Requests ==
  [agentId : {"", "  ", "unknown", "memory-agent"},
   body : {"invalid-json", "null", "no-messages", "messages-not-array",
           "messages"},
   threadId : {None, "", "t1"},
   configurable : Configs]

\* The events an Executor yields: a step key over one message instance
ExecEvents ==
  {[key |-> "callModel", cls |-> "AIMessage", content |-> 1],
   [key |-> "callModel", cls |-> "AIMessage", content |-> 2],
   [key |-> "tools", cls |-> "ToolMessage", content |-> 1]}

\* String.prototype.trim() === ''
trimIsEmpty(a) == a \in {"", "  "}

\* resolves taking every identifier for a known one
resolves_Always(a) == TRUE

\* agentMap.get(agentId) is defined
resolves(a) == a \in agentMap

\* JSON.stringify(chunk), as the frame the reader parses back: a message
\* instance serializes to its lc form
stringify(e) == NestedFrame(<<<<LcMsg(e.cls, e.content, 0)>>>>)

\* resolveThreadId always taking the generated id
resolveThreadId_AlwaysFresh(requested, uuid) == uuid

\* threadId || randomUUID(): an absent or empty threadId counts as none
resolveThreadId(requested, uuid) ==
  IF requested # None /\ requested # "" THEN requested ELSE uuid

\* graphConfig.configurable: {...configurable, userId: finalThreadId,
\* model: configurable?.model || default}
graphConfig(configurable, final) ==
  [userId |-> final,
   model |-> IF configurable.model \notin {None, ""} THEN configurable.model
             ELSE DefaultModel,
   extra |-> configurable.extra]

\* JsonResponse that carries the thread-id frame of a stream
JsonResponse_WithFrame(status, err) ==
  /\ pPc' = "responded"
  /\ pStatus' = status
  /\ pJson' = err
  /\ pHeader' = None
  /\ pBody' = <<ThreadFrame("u1")>>
  /\ pYielded' = <<>>

\* new Response(JSON.stringify({error}), {status})
JsonResponse(status, err) ==
  /\ pPc' = "responded"
  /\ pStatus' = status
  /\ pJson' = err
  /\ pHeader' = None
  /\ pBody' = <<>>
  /\ pYielded' = <<>>

\* The outer catch answering with the status of a success
catchError_Status200 == JsonResponse(200, "Internal server error")

\* catch (error) of POST: the JSON response with status 500
catchError == JsonResponse(500, "Internal server error")

\* HeaderValue taking the request's threadId where finalThreadId is meant
HeaderValue_Requested(final) == pReq'.threadId

\* The x-thread-id header of the streaming response
\* (thread ids are tokens without surrounding whitespace, which the Headers
\* object stores and returns unchanged)
HeaderValue(final) == final

\* The first enqueue of start(): the frame {threadId: finalThreadId}
InitialBody(final) == <<ThreadFrame(final)>>

\* POST(request, {params}), up to the return of its Response; start() of the
\* ReadableStream runs up to its first await inside it. uuid is what
\* randomUUID() returns, startFails says graph.stream(...) rejects.
POST(req, uuid, startFails) ==
  /\ pPc # "streaming"
  /\ nReqs < MaxRequests
  /\ nReqs' = nReqs + 1
  /\ pReq' = req
  /\ pFailed' = FALSE
  /\ IF req.agentId = "" \/ trimIsEmpty(req.agentId)
       THEN /\ JsonResponse(400, "Agent ID is required")
            /\ finalThreadId' = None /\ pUserId' = None /\ pInvoked' = 0
            /\ pConfig' = NoConfig
     ELSE IF req.body = "invalid-json"
       THEN /\ JsonResponse(400, "Invalid JSON in request body")
            /\ finalThreadId' = None /\ pUserId' = None /\ pInvoked' = 0
            /\ pConfig' = NoConfig
     ELSE IF req.body = "null"
       \* destructuring null throws a TypeError: the outer catch
       THEN /\ catchError
            /\ finalThreadId' = None /\ pUserId' = None /\ pInvoked' = 0
            /\ pConfig' = NoConfig
     ELSE IF req.body # "messages"
       THEN /\ JsonResponse(400, "Messages array is required")
            /\ finalThreadId' = None /\ pUserId' = None /\ pInvoked' = 0
            /\ pConfig' = NoConfig
     ELSE IF ~resolves(req.agentId)
       THEN /\ JsonResponse(404, "Agent not found")
            /\ finalThreadId' = None /\ pUserId' = None /\ pInvoked' = 0
            /\ pConfig' = NoConfig
     ELSE /\ finalThreadId' = resolveThreadId(req.threadId, uuid)
          /\ pUserId' = finalThreadId'
          /\ pConfig' = graphConfig(req.configurable, finalThreadId')
          /\ pInvoked' = 1
          /\ IF startFails
               THEN catchError
               ELSE /\ pPc' = "streaming"
                    /\ pStatus' = 200
                    /\ pJson' = None
                    /\ pHeader' = HeaderValue(finalThreadId')
                    /\ pBody' = InitialBody(finalThreadId')
                    /\ pYielded' = <<>>

\* controller.enqueue of one event's frame
EnqueueEvent(body, e) == Append(body, stringify(e))

\* One turn of the for-await loop: the Executor yields e
ExecYield(e) ==
  /\ pPc = "streaming"
  /\ Len(pYielded) < MaxEvents
  /\ pYielded' = Append(pYielded, e)
  /\ pBody' = EnqueueEvent(pBody, e)
  /\ UNCHANGED <<pPc, pReq, pStatus, pHeader, pJson, finalThreadId, pUserId,
                 pConfig, pInvoked, pFailed, nReqs>>

\* CompletedBody without the end sentinel
CompletedBody_NoSentinel(body) == body

\* What the body holds once the loop has ended without a throw
CompletedBody(body) == Append(body, EndFrame)

\* The Executor's sequence ends: the end sentinel, controller.close()
ExecComplete ==
  /\ pPc = "streaming"
  /\ pBody' = CompletedBody(pBody)
  /\ pPc' = "closed"
  /\ UNCHANGED <<pReq, pStatus, pHeader, pJson, finalThreadId, pUserId,
                 pConfig, pInvoked, pYielded, pFailed, nReqs>>

\* The Executor throws: the catch of start(), controller.error(error)
ExecFail ==
  /\ pPc = "streaming"
  /\ pPc' = "errored"
  /\ pFailed' = TRUE
  /\ UNCHANGED <<pReq, pStatus, pHeader, pJson, pBody, finalThreadId, pUserId,
                 pConfig, pInvoked, pYielded, nReqs>>

PNext ==
  \/ \E req \in Requests, uuid \in UUIDs, startFails \in BOOLEAN :
        POST(req, uuid, startFails) /\ UNCHANGED <<cvars, fed, avars, branchLogged>>
  \/ \E e \in ExecEvents : ExecYield(e) /\ UNCHANGED <<cvars, fed, avars, branchLogged>>
  \/ ExecComplete /\ UNCHANGED <<cvars, fed, avars, branchLogged>>
  \/ ExecFail /\ UNCHANGED <<cvars, fed, avars, branchLogged>>

Init ==
  /\ CInit /\ PInit /\ fed = <<>>
  /\ entries = CoreEntries /\ agentsResponse = NoAgentsResponse
  /\ branchLogged = None

\* GET /api/agents over the registries of at most MaxAgents entries
AInit ==
  /\ CInit /\ PInit /\ fed = <<>>
  /\ entries \in Registries /\ agentsResponse = NoAgentsResponse
  /\ branchLogged = None

ANext == GET /\ UNCHANGED <<cvars, pvars, fed, branchLogged>>

SpecAgents == AInit /\ [][ANext]_vars

\* ---------------------------------------------------------- specifications
\* The data lines of the runs with several submit() calls
CoreLines(s) ==
  {TopFrame(<<PlainMsg("ai", 1, s)>>), TopFrame(<<PlainMsg("ai", 2, s)>>)}

\* await fetch(...) of call s settles
FetchSettles(s) ==
  \/ \E abort \in BOOLEAN : fetchRejected(s, abort)
  \/ \E resp \in Responses : fetchResolved(s, resp)

\* await reader.read() of call s settles, its chunks made of the lines L
ReadSettles(s, L) ==
  \/ \E abort \in BOOLEAN : readRejected(s, abort)
  \/ readDone(s)
  \/ \E lines \in SeqsUpTo(L, MaxLines) : readChunk(s, lines)

\* One hook instance, any interleaving of submit(), stop(), renders and the
\* settling of awaits
Next ==
  \/ \E p \in CorePayloads(nSubs + 1) : submit(p) /\ UNCHANGED <<pvars, fed, avars, branchLogged>>
  \/ \E raced \in BOOLEAN : stop(raced) /\ UNCHANGED <<pvars, fed, avars, branchLogged>>
  \/ Render /\ UNCHANGED <<pvars, fed, avars, branchLogged>>
  \/ \E s \in Subs, abort \in BOOLEAN : fetchRejected(s, abort) /\ UNCHANGED <<pvars, fed, avars, branchLogged>>
  \/ \E s \in Subs, resp \in Responses : fetchResolved(s, resp) /\ UNCHANGED <<pvars, fed, avars, branchLogged>>
  \/ \E s \in Subs, abort \in BOOLEAN : readRejected(s, abort) /\ UNCHANGED <<pvars, fed, avars, branchLogged>>
  \/ \E s \in Subs : readDone(s) /\ UNCHANGED <<pvars, fed, avars, branchLogged>>
  \/ \E s \in Subs : \E lines \in SeqsUpTo(CoreLines(s), MaxLines) :
        readChunk(s, lines) /\ UNCHANGED <<pvars, fed, avars, branchLogged>>

Spec == Init /\ [][Next]_vars

\* The data lines of the interleavings with interrupts: an AI message of
\* submission s, or an interrupt
InterruptLines(s) == {TopFrame(<<PlainMsg("ai", 1, s)>>), InterruptFrame}

\* One hook instance, any interleaving, the responses carrying interrupts
INext ==
  \/ \E p \in CorePayloads(nSubs + 1) : submit(p) /\ UNCHANGED <<pvars, fed, avars, branchLogged>>
  \/ \E raced \in BOOLEAN : stop(raced) /\ UNCHANGED <<pvars, fed, avars, branchLogged>>
  \/ Render /\ UNCHANGED <<pvars, fed, avars, branchLogged>>
  \/ \E s \in Subs, abort \in BOOLEAN : fetchRejected(s, abort) /\ UNCHANGED <<pvars, fed, avars, branchLogged>>
  \/ \E s \in Subs, resp \in Responses : fetchResolved(s, resp) /\ UNCHANGED <<pvars, fed, avars, branchLogged>>
  \/ \E s \in Subs, abort \in BOOLEAN : readRejected(s, abort) /\ UNCHANGED <<pvars, fed, avars, branchLogged>>
  \/ \E s \in Subs : readDone(s) /\ UNCHANGED <<pvars, fed, avars, branchLogged>>
  \/ \E s \in Subs : \E lines \in SeqsUpTo(InterruptLines(s), MaxLines) :
        readChunk(s, lines) /\ UNCHANGED <<pvars, fed, avars, branchLogged>>

SpecInterrupt == Init /\ [][INext]_vars

\* One submit() call on a hook instance, with every kind of data line
SNext ==
  \/ \E p \in Payloads(1) : nSubs = 0 /\ submit(p) /\ UNCHANGED <<pvars, fed, avars, branchLogged>>
  \/ \E raced \in BOOLEAN : stop(raced) /\ UNCHANGED <<pvars, fed, avars, branchLogged>>
  \/ Render /\ UNCHANGED <<pvars, fed, avars, branchLogged>>
  \/ \E abort \in BOOLEAN : fetchRejected(1, abort) /\ UNCHANGED <<pvars, fed, avars, branchLogged>>
  \/ \E resp \in Responses : fetchResolved(1, resp) /\ UNCHANGED <<pvars, fed, avars, branchLogged>>
  \/ \E abort \in BOOLEAN : readRejected(1, abort) /\ UNCHANGED <<pvars, fed, avars, branchLogged>>
  \/ readDone(1) /\ UNCHANGED <<pvars, fed, avars, branchLogged>>
  \/ \E lines \in SeqsUpTo(Lines(1), MaxLines) :
        readChunk(1, lines) /\ UNCHANGED <<pvars, fed, avars, branchLogged>>

SpecStream == Init /\ [][SNext]_vars

\* The data lines of the runs that follow one submit() call to its exit
ExitLines(s) == {TopFrame(<<PlainMsg("ai", 1, s)>>), ErrorFrame, EndFrame}

\* One submit() call on a hook instance, followed to its exit
LNext ==
  \/ \E p \in CorePayloads(1) : nSubs = 0 /\ submit(p) /\ UNCHANGED <<pvars, fed, avars, branchLogged>>
  \/ \E raced \in BOOLEAN : stop(raced) /\ UNCHANGED <<pvars, fed, avars, branchLogged>>
  \/ Render /\ UNCHANGED <<pvars, fed, avars, branchLogged>>
  \/ FetchSettles(1) /\ UNCHANGED <<pvars, fed, avars, branchLogged>>
  \/ ReadSettles(1, ExitLines(1)) /\ UNCHANGED <<pvars, fed, avars, branchLogged>>

\* The branches setBranch is called with
Branches == {"main", "test-branch"}

\* One submit() call followed to its exit, with setBranch called at any point
BNext ==
  \/ \E p \in CorePayloads(1) : nSubs = 0 /\ submit(p) /\ UNCHANGED <<pvars, fed, avars, branchLogged>>
  \/ \E raced \in BOOLEAN : stop(raced) /\ UNCHANGED <<pvars, fed, avars, branchLogged>>
  \/ \E branch \in Branches : setBranch(branch) /\ UNCHANGED <<pvars, fed, avars>>
  \/ Render /\ UNCHANGED <<pvars, fed, avars, branchLogged>>
  \/ FetchSettles(1) /\ UNCHANGED <<pvars, fed, avars, branchLogged>>
  \/ ReadSettles(1, ExitLines(1)) /\ UNCHANGED <<pvars, fed, avars, branchLogged>>

SpecBranch == Init /\ [][BNext]_vars

\* Every await that is pending eventually settles: the fetch resolves or
\* rejects, each reader.read() resolves or rejects
FairExit ==
  /\ Init /\ [][LNext]_vars
  /\ WF_vars(FetchSettles(1) /\ UNCHANGED <<pvars, fed, avars, branchLogged>>)
  /\ WF_vars(ReadSettles(1, ExitLines(1)) /\ UNCHANGED <<pvars, fed, avars, branchLogged>>)

\* The same for the runs of Spec
FairSpec ==
  /\ Spec
  /\ \A s \in Subs : WF_vars(FetchSettles(s) /\ UNCHANGED <<pvars, fed, avars, branchLogged>>)
  /\ \A s \in Subs : WF_vars(ReadSettles(s, CoreLines(s)) /\ UNCHANGED <<pvars, fed, avars, branchLogged>>)

\* The data lines of the runs of the reader loop: those of Lines, and a
\* batch that holds a tool message next to an AI message
ReaderLines(s) ==
  Lines(s) \cup {TopFrame(<<PlainMsg("tool", 2, s), PlainMsg("ai", 1, s)>>)}

\* The reader loop of one submission, with the chunks it is fed on record
RNext ==
  \/ \E p \in CorePayloads(1) : nSubs = 0 /\ submit(p) /\ UNCHANGED <<pvars, fed, avars, branchLogged>>
  \/ \E resp \in Responses : fetchResolved(1, resp) /\ UNCHANGED <<pvars, fed, avars, branchLogged>>
  \/ \E lines \in SeqsUpTo(ReaderLines(1), MaxLines) :
        readChunk(1, lines) /\ fed' = Append(fed, lines)
          /\ UNCHANGED <<pvars, avars, branchLogged>>
  \/ readDone(1) /\ UNCHANGED <<pvars, fed, avars, branchLogged>>

SpecReader == Init /\ [][RNext]_vars

\* ---- The reconciliation of one submission's frames
\* Frames that carry batches of every shape: several AI messages, messages
\* without content, a top-level array next to nested ones, arrays under
\* several keys, serialized LangChain messages, and no messages at all
MergeLines(s) ==
  {TopFrame(<<PlainMsg("ai", 1, s), PlainMsg("ai", 2, s)>>),
   TopFrame(<<PlainMsg("ai", 2, s), PlainMsg("ai", 0, s)>>),
   TopFrame(<<PlainMsg("tool", 1, s)>>),
   TopFrame(<<PlainMsg("ai", 0, s), PlainMsg("tool", 0, s)>>),
   [TopFrame(<<>>) EXCEPT !.nest = <<<<PlainMsg("ai", 1, s)>>>>],
   [TopFrame(<<PlainMsg("tool", 2, s)>>) EXCEPT !.nest = <<<<PlainMsg("ai", 1, s)>>>>],
   NestedFrame(<<<<LcMsg("AIMessage", 1, s)>>, <<PlainMsg("tool", 1, s)>>>>),
   NestedFrame(<<<<LcMsg("AIMessageChunk", 2, s)>>>>),
   ThreadFrame("t2")}

\* The reader loop of one submission over these frames, its chunks on record
MNext ==
  \/ \E p \in Payloads(1) : nSubs = 0 /\ submit(p) /\ UNCHANGED <<pvars, fed, avars, branchLogged>>
  \/ \E resp \in Responses : fetchResolved(1, resp) /\ UNCHANGED <<pvars, fed, avars, branchLogged>>
  \/ \E lines \in SeqsUpTo(MergeLines(1), MaxLines) :
        readChunk(1, lines) /\ fed' = Append(fed, lines)
          /\ UNCHANGED <<pvars, avars, branchLogged>>
  \/ readDone(1) /\ UNCHANGED <<pvars, fed, avars, branchLogged>>

SpecMerge == Init /\ [][MNext]_vars

\* ---- StreamProvider against the Producer, one turn after the other
\* The body of the request submit() sends: JSON.stringify leaves out a
\* threadId that is undefined
RequestOf(s) ==
  [agentId |-> assistantId, body |-> "messages", threadId |-> sub[s].threadId,
   configurable |-> NoConfig]

\* The Producer receives the request of call s
Serve(s, uuid, startFails) ==
  /\ sub[s].pc = "fetching" /\ ~sub[s].taken
  /\ POST(RequestOf(s), uuid, startFails)
  /\ sub' = [sub EXCEPT ![s].taken = TRUE]
  /\ UNCHANGED <<messages, isLoading, error, interrupt, abortControllerRef,
                 aborted, rendered, threadId, assistantId, nSubs, fed,
                 avars, branchLogged>>

\* fetch of call s resolves with the Producer's response
Respond(s) ==
  /\ sub[s].taken
  /\ fetchResolved(s, [ok |-> pStatus = 200, hasBody |-> TRUE, header |-> pHeader])
  /\ UNCHANGED <<pvars, fed, avars, branchLogged>>

\* reader.read() of call s resolves with the next frames of the body
Deliver(s) ==
  /\ pPc # "errored"
  /\ \E k \in 1..(Len(pBody) - sub[s].nread) :
       readChunk(s, SubSeq(pBody, sub[s].nread + 1, sub[s].nread + k))
  /\ UNCHANGED <<pvars, fed, avars, branchLogged>>

\* The body was closed and is read to its end
Close(s) ==
  /\ pPc = "closed" /\ sub[s].nread = Len(pBody)
  /\ readDone(s)
  /\ UNCHANGED <<pvars, fed, avars, branchLogged>>

\* controller.error(error): the pending read rejects with the error
Break(s) ==
  /\ pPc = "errored"
  /\ readRejected(s, FALSE)
  /\ UNCHANGED <<pvars, fed, avars, branchLogged>>

TNext ==
  \/ \E p \in CorePayloads(nSubs + 1) :
        (\A u \in Subs : ~InFlight(u)) /\ submit(p) /\ UNCHANGED <<pvars, fed, avars, branchLogged>>
  \/ Render /\ UNCHANGED <<pvars, fed, avars, branchLogged>>
  \/ \E s \in Subs, uuid \in UUIDs, startFails \in BOOLEAN :
        Serve(s, uuid, startFails)
  \/ \E s \in Subs : Respond(s)
  \/ \E s \in Subs : Deliver(s)
  \/ \E s \in Subs : Close(s)
  \/ \E s \in Subs : Break(s)
  \/ \E e \in ExecEvents : ExecYield(e) /\ UNCHANGED <<cvars, fed, avars, branchLogged>>
  \/ ExecComplete /\ UNCHANGED <<cvars, fed, avars, branchLogged>>
  \/ ExecFail /\ UNCHANGED <<cvars, fed, avars, branchLogged>>

SpecSession == Init /\ [][TNext]_vars

\* The Producer serving requests one after the other
SpecProducer == Init /\ [][PNext]_vars

\* ------------------------------------------------------------------ claims
\* The submit() calls whose request or stream is live on the network
Live == {s \in Subs : InFlight(s) /\ s \notin aborted}

\* The AI-type messages of state that the frames of call s put there
AiOfTurn(ms, s) ==
  {i \in DOMAIN ms : IsAi(ms[i]) /\ ms[i].turn = s /\ ms[i].src = "frame"}

\* C1: a submit() made while another submission is Submitting or Streaming
\* issues no fetch and leaves the message count unchanged, so that no two
\* network streams are ever live together.
C1_AtMostOneInFlight ==
  [][(Live # {} /\ nSubs' = nSubs + 1)
       => /\ sub'[nSubs'].pc # "fetching"
          /\ Len(messages') = Len(messages)
          /\ Cardinality({s \in Subs : InFlight(s)' /\ s \notin aborted'}) <= 1]_vars

\* C2: when the stream of a turn ends, state holds exactly one AI message of
\* that turn, and it is the last non-empty AI-type message the turn's frames
\* carried.
C2_OneAiMessagePerTurn ==
  [][\A s \in Subs :
       (sub[s].pc = "reading" /\ sub'[s].pc = "done"
          /\ sub'[s].outcome = "completed" /\ sub'[s].recvAi # 0)
       => /\ Cardinality(AiOfTurn(messages', s)) = 1
          /\ \A i \in AiOfTurn(messages', s) :
               messages'[i].content = sub'[s].recvAi]_vars

\* C3: a parsed frame whose error field is set ends the submission Errored:
\* error carries the frame's message, nothing more of that stream is
\* reconciled, and the reader is released.
C3_ErrorFrameEndsErrored ==
  \A s \in Subs :
    sub[s].seenErr =>
      /\ sub[s].pc = "done"
      /\ sub[s].outcome = "errored"
      /\ sub[s].reader = "released"
      /\ error = "boom"

\* The thread-id callback invocations the contract allows call s, once the
\* response has passed the status and body checks
ExpectedCalls(s) ==
  IF sub[s].reader = "none" THEN <<>>
  ELSE IF sub[s].header # None THEN <<sub[s].header>>
  ELSE IF sub[s].parsed /\ sub[s].firstTid # None THEN <<sub[s].firstTid>>
  ELSE <<>>

\* C5: with no thread id supplied, one submit invokes onThreadId at most once:
\* with the header's id if there is one, otherwise with the threadId of the
\* first parsed frame; a threadId carried by a later frame never invokes it.
C5_ThreadIdFirstWriterWins ==
  \A s \in Subs : sub[s].threadId = None => sub[s].calls = ExpectedCalls(s)

\* C5 reached: no header id, a first frame without threadId, a later frame
\* with one, and no invocation; or a header id and a frame id, one invocation
C5_Witness ==
  \E s \in Subs :
    /\ sub[s].threadId = None /\ sub[s].pc = "done"
    /\ sub[s].header = None /\ sub[s].parsed /\ sub[s].firstTid = None
    /\ sub[s].lateTid /\ sub[s].calls = <<>>

\* C6: with a thread id supplied by the caller, onThreadId is never invoked.
C6_NoCallbackWhenSupplied ==
  \A s \in Subs : sub[s].threadId # None => sub[s].calls = <<>>

\* C6 reached: a supplied id, a response with a header id and a first frame
\* with a threadId, read to the end
C6_Witness ==
  \E s \in Subs :
    /\ sub[s].threadId # None /\ sub[s].pc = "done"
    /\ sub[s].outcome = "completed"
    /\ sub[s].header # None /\ sub[s].parsed /\ sub[s].firstTid # None
    /\ sub[s].calls = <<>>

\* C10: a processed end sentinel ends the reader loop: the submission is
\* Completed without a further read, and no later frame changes messages or
\* interrupt.
C10_EndSentinelEndsLoop ==
  \A s \in Subs :
    sub[s].seenEnd =>
      /\ sub[s].pc = "done"
      /\ sub[s].outcome = "completed"
      /\ ~sub[s].late

\* C4: after a submit() whose awaits settle, isLoading becomes false again,
\* whichever way the submission ends.
C4_LoadingCleared == (\E s \in Subs : InFlight(s)) ~> ~isLoading

\* C4 reached: a submission that read an error frame and then ended, with
\* isLoading false
C4_Witness ==
  \E s \in Subs :
    /\ sub[s].pc = "done" /\ sub[s].seenErr /\ s \notin aborted
    /\ ~isLoading

\* The frames of the Executor's events so far, in yield order
EventFrames == [i \in 1..Len(pYielded) |-> stringify(pYielded[i])]

\* C7: a streamed response carries in its x-thread-id header the threadId of
\* the body's first frame, and that frame precedes every event frame.
C7_HeaderEqualsFirstFrame ==
  pStatus = 200 =>
    /\ pHeader # None
    /\ Len(pBody) >= 1 + Len(pYielded)
    /\ pBody[1] = ThreadFrame(pHeader)
    /\ \A i \in 1..Len(pYielded) : pBody[i + 1] = EventFrames[i]

\* C7 reached: a request without threadId, answered with a stream that has
\* emitted an event frame
C7_Witness ==
  /\ pStatus = 200 /\ pReq.threadId = None
  /\ Len(pYielded) >= 1 /\ pHeader \in UUIDs

\* C8: when the Executor fails while the response streams, the body ends
\* with exactly one error frame, holds no end sentinel, and the stream is
\* closed, not errored.
C8_ErrorFrameOnFailure ==
  pFailed =>
    /\ pPc = "closed"
    /\ Len(pBody) >= 1
    /\ pBody[Len(pBody)].err # ""
    /\ Cardinality({i \in DOMAIN pBody : pBody[i].err # ""}) = 1
    /\ \A i \in DOMAIN pBody : ~pBody[i].end

\* C9: on clean completion after n events the body is the thread-id frame,
\* the n event frames in yield order, and one end sentinel: n + 2 frames.
C9_CleanCompletionBody ==
  pPc = "closed" =>
    /\ pBody = <<ThreadFrame(finalThreadId)>> \o EventFrames \o <<EndFrame>>
    /\ Len(pBody) = Len(pYielded) + 2

\* C9 reached: a clean completion after two different events
C9_Witness ==
  /\ pPc = "closed" /\ Len(pYielded) >= 2 /\ pYielded[1] # pYielded[2]

\* C20: the resolved thread id is the request's threadId when the request
\* carries one, and a generated UUID otherwise; the executor configuration,
\* the response header and the first frame all hold that one value, for as
\* long as the request is served.
C20_ResolvedThreadId ==
  pInvoked = 1 =>
    /\ IF pReq.threadId \in ThreadIds
         THEN finalThreadId = pReq.threadId
         ELSE finalThreadId \in UUIDs
    /\ pUserId = finalThreadId
    /\ pStatus = 200 =>
         /\ pHeader = finalThreadId
         /\ pBody[1] = ThreadFrame(finalThreadId)

\* C20 reached: a request that carries a threadId, streamed to its end
\* after an event
C20_Witness ==
  /\ pInvoked = 1 /\ pReq.threadId \in ThreadIds
  /\ pPc = "closed" /\ Len(pYielded) >= 1

IsParsable(f) == f.ok
NotAi(m) == ~IsAi(m)

\* C16: a chunk with lines that fail to parse has the effect of the same
\* chunk without those lines, on messages, interrupt and the thread-id
\* callback; it sets no error and the reader loop goes on to the next read.
C16_MalformedFrameSkipped ==
  [][fed' # fed =>
       LET lines == fed'[Len(fed')]
           res == ProcessLines(sub[1].threadId, ReaderState(1),
                               SelectSeq(lines, IsParsable))
       IN /\ messages' = res.messages
          /\ interrupt' = res.interrupt
          /\ sub'[1].calls = res.calls
          /\ sub'[1].threadIdHandled = res.threadIdHandled
          /\ sub'[1].firstSSEChecked = res.firstSSEChecked
          /\ error' = error
          /\ sub'[1].pc = "reading"]_vars

\* C16 reached: a line that fails to parse, and after it an AI frame whose
\* message is in state, the stream read to its end with no error
C16_Witness ==
  /\ Len(fed) >= 1 /\ ~fed[1][1].ok
  /\ sub[1].pc = "done" /\ sub[1].outcome = "completed" /\ error = None
  /\ sub[1].recvAi # 0
  /\ \E i \in DOMAIN messages :
       messages[i].src = "frame" /\ messages[i].content = sub[1].recvAi

\* C17: the non-empty messages of a frame's batch that are not AI-type are
\* appended to the message list in batch order, whether or not the batch
\* holds an AI-type message too.
C17_NonAiAppended ==
  [][(fed' # fed /\ Len(fed'[Len(fed')]) = 1
        /\ fed'[Len(fed')][1].ok /\ fed'[Len(fed')][1].err = "")
       => LET f == fed'[Len(fed')][1]
              batch == SelectSeq(MapTransform(messagesToAdd(f)), HasContent)
              added == SubSeq(messages', Len(messages) + 1, Len(messages'))
          IN /\ Len(messages') >= Len(messages)
             /\ SelectSeq(added, NotAi) = SelectSeq(batch, NotAi)]_vars

\* C18: the messages that were in state when a submit() was made stay where
\* they are, unchanged, at every later step; stated for the steps of turns
\* that run while no other submission is in flight.
C18_PriorMessagesIntact ==
  [][\A t \in Subs :
       (\A u \in Subs \ {t} : ~InFlight(u) /\ ~InFlight(u)')
       => \A i \in 1..sub[t].base :
            i \in DOMAIN messages' /\ messages'[i] = messages[i]]_vars

\* C19: once the provider holds a thread id, it never changes; every request
\* the Producer receives from then on carries it, and the Producer's header
\* and first frame echo it.
C19_ThreadIdImmutable ==
  [][threadId # None =>
       /\ threadId' = threadId
       /\ nReqs' = nReqs + 1 =>
            /\ pReq'.threadId = threadId
            /\ pStatus' = 200 =>
                 (pHeader' = threadId /\ pBody'[1] = ThreadFrame(threadId))]_vars

\* C21: a request whose agent identifier is empty or whitespace, whose body
\* is not parseable JSON, or whose body has no messages array, is answered
\* with status 400, whether the agent is known or not.
C21_InvalidRequest400 ==
  (nReqs > 0 /\ (pReq.agentId \in {"", "  "} \/ pReq.body # "messages"))
  => (pStatus = 400 /\ pJson # None)

C28_ConfigurablePassedThrough ==
  pInvoked = 1 =>
    /\ \A k \in {"userId", "model", "extra"} :
         pReq.configurable[k] # None => pConfig[k] = pReq.configurable[k]
    /\ pReq.configurable.userId = None => pConfig.userId = finalThreadId
    /\ pReq.configurable.model = None => pConfig.model = DefaultModel
    /\ pReq.configurable.extra = None => pConfig.extra = None

\* C23: a submit() that passes the guard and issues its request has appended
\* to the message list, before the request, the human messages of the
\* payload and no message of another type.
C23_OnlyHumanAppended ==
  [][(nSubs' = nSubs + 1 /\ sub'[nSubs'].pc = "fetching")
       => /\ Len(messages') >= Len(messages)
          /\ SubSeq(messages', 1, Len(messages)) = messages
          /\ \A i \in (Len(messages) + 1)..Len(messages') :
               messages'[i].type = "human"]_vars

\* C25: a submission that has finished holds no reader lock, whichever way
\* it ended, and its AbortController is no longer stored in the ref.
C25_ReaderReleased ==
  \A s \in Subs :
    sub[s].pc = "done" =>
      /\ sub[s].reader \in {"none", "released"}
      /\ sub[s].resp = "ok" => sub[s].reader = "released"
      /\ abortControllerRef # s

\* C25 reached: a submission that was stopped while reading, after its end
\* sentinel, has finished
C25_Witness ==
  \E s \in Subs :
    /\ sub[s].pc = "done" /\ sub[s].outcome = "aborted"
    /\ sub[s].seenEnd /\ sub[s].reader = "released"

\* A message of state as it is with an id
WithId(m) == [id |-> "test-message-id", type |-> m.type, content |-> m.content]

\* C26: getMessagesMetadata returns, for every message, the message's id
\* ('' when it has none), firstSeenState undefined, branch 'main' and
\* branchOptions [].
C26_MessagesMetadataDefaults ==
  \A i \in DOMAIN messages :
    \A m \in {messages[i], WithId(messages[i])} :
      getMessagesMetadata(m) =
        [messageId |-> IF m = messages[i] THEN "" ELSE "test-message-id",
         firstSeenState |-> "undefined", branch |-> "main",
         branchOptions |-> "[]"]

\* C27: in every state the exposed context has branch 'main', an empty
\* history, the empty sequence tree, an array for values.ui, and messages
\* equal to values.messages.
C27_NeutralContextFields ==
  /\ useLocalStream.branch = "main"
  /\ useLocalStream.history = <<>>
  /\ useLocalStream.experimental_branchTree = [type |-> "sequence", items |-> <<>>]
  /\ useLocalStream.values.ui = <<>>
  /\ useLocalStream.messages = useLocalStream.values.messages
  /\ useLocalStream.messages = messages

\* C27 reached: after a submit with frames reconciled, a stop() and a
\* setBranch call, the context holds several messages
C27_Witness ==
  /\ Len(messages) >= 2 /\ aborted # {} /\ ~isLoading
  /\ branchLogged # None
  /\ \E i \in DOMAIN messages : messages[i].src = "frame"

\* The submit() call in progress or last completed (0: none): the latest one
\* that got past the isLoading test
CurrentSub ==
  LET S == {s \in 1..nSubs : sub[s].pc # "rejected"}
  IN IF S = {} THEN 0 ELSE CHOOSE s \in S : \A t \in S : t <= s

\* C24: the exposed interrupt is {when:'now', value: the payload of the last
\* interrupt frame of the current submission}, and undefined when no
\* interrupt frame arrived in the current submission.
C24_LastInterruptExposed ==
  CurrentSub # 0 =>
    useLocalStream.interrupt = exposedInterrupt(sub[CurrentSub].recvIntr)

\* The frame a data line is (a part of): a chunk boundary inside a frame's
\* `data: <json>` line leaves a head that JSON.parse rejects and a tail that
\* does not start with `data: `, so the frame reaches the loop as a line that
\* does not parse
WholeFrame(line) == [line EXCEPT !.ok = TRUE]

\* The frames a chunk's lines are parts of
WholeFrames(lines) == [i \in DOMAIN lines |-> WholeFrame(lines[i])]

\* C30: the reconciled state does not depend on where the chunks are cut:
\* every chunk read leaves the messages, the interrupt and the thread-id
\* callbacks that the frames its lines belong to give when they arrive
\* whole, so no frame is lost to a cut inside its line.
C30_ChunkingIndependent ==
  [][fed' # fed =>
       LET lines == fed'[Len(fed')]
           whole == ProcessLines(sub[1].threadId, ReaderState(1),
                                 WholeFrames(lines))
       IN /\ messages' = whole.messages
          /\ interrupt' = whole.interrupt
          /\ sub'[1].calls = whole.calls
          /\ threadId' = AfterCalls(sub[1].calls, whole.calls)]_vars

\* C29: GET /api/agents returns one entry {id, name, description} per
\* registered agent, in order, description a string that is empty when the
\* metadata has none, and count equal to the length of agents.
C29_AgentsListed ==
  agentsResponse.status # 0 =>
    /\ agentsResponse.status = 200
    /\ Len(agentsResponse.agents) = Len(entries)
    /\ agentsResponse.count = Len(agentsResponse.agents)
    /\ \A i \in DOMAIN entries :
         LET a == agentsResponse.agents[i] IN
           /\ DOMAIN a = {"id", "name", "description"}
           /\ a.id = entries[i].id /\ a.name = entries[i].name
           /\ a.description # None
           /\ entries[i].description = None => a.description = ""
           /\ entries[i].description # None => a.description = entries[i].description

\* C29 reached: a list of two agents, one of them without a description
C29_Witness ==
  /\ agentsResponse.status = 200 /\ agentsResponse.count = 2
  /\ entries[1].description = None /\ entries[2].description = "text"

\* Call s has been stopped: stop() aborted its controller
Stopped(s) == s \in aborted

\* C31: whenever the latest submission is in flight and not stopped, and
\* every submission started before it was stopped before it started, then
\* isLoading is true and the stored cancellation handle is that
\* submission's: the cleanup of an earlier, stopped submission clears neither.
C31_LoadingTracksInFlight ==
  \A s \in Subs :
    (/\ InFlight(s) /\ ~Stopped(s) /\ s = CurrentSub
     /\ \A t \in 1..(s - 1) : sub[t].pc # "rejected" => Stopped(t))
    => (isLoading /\ abortControllerRef = s)

\* C32: a request answered 400 or 404 has not invoked the Executor's stream
\* operation, generated no thread id and no header, and emitted no frame;
\* the Executor is invoked at most once per request, and never again while
\* the request is served.
C32_FailFast ==
  [][(pStatus' \in {400, 404} =>
        (pInvoked' = 0 /\ finalThreadId' = None
           /\ pHeader' = None /\ pBody' = <<>> /\ pYielded' = <<>>))
       /\ pInvoked' <= 1
       /\ (nReqs' = nReqs => pInvoked' = pInvoked)]_vars

\* C32 reached: a request without messages answered 400 after an earlier
\* request was served with a stream
C32_Witness ==
  /\ nReqs = 2 /\ pStatus = 400 /\ pReq.agentId \in agentMap
  /\ pReq.body = "no-messages" /\ pReq.threadId = "t1"

\* The step is the read of a chunk of one frame
OneFrameRead == fed' # fed /\ Len(fed'[Len(fed')]) = 1

\* The batch of the frame just read, and its non-empty AI-type messages
BatchRead == MapTransform(messagesToAdd(fed'[Len(fed')][1]))
AiRead == SelectSeq(SelectSeq(BatchRead, HasContent), IsAi)

\* C33: when a frame's batch holds a non-empty AI-type message, the last
\* such message takes the place of the most recent AI-type message in state
\* (length unchanged, every other position unchanged), or is appended when
\* state has none (length + 1); the earlier AI-type messages of the batch do
\* not enter state.
C33_LastAiReplaces ==
  [][(OneFrameRead /\ AiRead # <<>>)
       => LET last == AiRead[Len(AiRead)]
              k == findLastAiIndex(messages)
          IN /\ IF k > 0
                  THEN /\ Len(messages') = Len(messages)
                       /\ messages'[k] = last
                       /\ \A i \in DOMAIN messages \ {k} : messages'[i] = messages[i]
                  ELSE messages' = Append(messages, last)
             /\ \A i \in 1..(Len(AiRead) - 1) :
                  AiRead[i] # last =>
                    \A j \in DOMAIN messages' :
                      messages'[j] = AiRead[i] =>
                        (j \in DOMAIN messages /\ messages[j] = AiRead[i])]_vars

\* C33 reached: the batch [ai 1, ai 2] has replaced the AI message of the
\* payload, in the middle of the list
C33_Witness ==
  /\ Len(fed) = 2 /\ Len(messages) = 3
  /\ fed[2] = <<TopFrame(<<PlainMsg("ai", 1, 1), PlainMsg("ai", 2, 1)>>)>>
  /\ messages[2].src = "frame" /\ messages[2].content = 2
  /\ messages[3].type = "tool"

\* The message's content is empty or absent
NoContent(m) == m.content = 0
HoldsContent(m) == ~NoContent(m)

\* C34: no message with empty or absent content enters the message state
\* from a frame, and a frame whose batch is empty or holds only such
\* messages leaves the message state unchanged.
C34_EmptyContentDiscarded ==
  [][/\ \A i \in DOMAIN messages' :
          messages'[i].src = "frame" => ~NoContent(messages'[i])
     /\ (OneFrameRead /\ SelectSeq(BatchRead, HoldsContent) = <<>>)
          => messages' = messages]_vars

\* C34 reached: after a frame was reconciled, a frame whose batch holds only
\* messages without content has been read
C34_Witness ==
  /\ Len(fed) = 2
  /\ fed[2] = <<TopFrame(<<PlainMsg("ai", 0, 1), PlainMsg("tool", 0, 1)>>)>>
  /\ \E i \in DOMAIN messages : messages[i].src = "frame"

\* C35: the batch of a frame is its top-level messages array when it has
\* one, nested arrays ignored; otherwise the arrays one level under its keys,
\* concatenated in key order; a frame with neither leaves messages unchanged.
C35_MessageCollection ==
  [][OneFrameRead
       => LET f == fed'[Len(fed')][1]
              batch == IF f.hasTop THEN f.top ELSE Flatten(f.nest)
          IN /\ messages' = mergeMessages(messages, MapTransform(batch))
             /\ (~f.hasTop /\ f.nest = <<>>) => messages' = messages]_vars

\* C35 reached: a frame with a top-level array and a nested one was read,
\* and only the message of the top-level array is in state
C35_Witness ==
  /\ Len(fed) = 1
  /\ fed[1] = <<[TopFrame(<<PlainMsg("tool", 2, 1)>>)
                  EXCEPT !.nest = <<<<PlainMsg("ai", 1, 1)>>>>]>>
  /\ messages = <<PayloadMsg("human", 1, 1),
                  transformLangChainMessage(PlainMsg("tool", 2, 1))>>

\* The message in state is an assistant reply that came in a frame: AI-type,
\* or carrying the lower-cased class name of a serialized assistant message
AssistantReply(m) ==
  m.src = "frame" /\ m.type \in {"ai", "aimessage", "aimessagechunk"}

\* C36: an assistant reply that arrives in serialized LangChain form is in
\* state as an AI-type message, and successive such frames of one turn
\* replace one another: the turn has at most one assistant reply in state.
C36_SerializedAiReconciled ==
  /\ \A i \in DOMAIN messages :
       AssistantReply(messages[i]) => messages[i].type = "ai"
  /\ Cardinality({i \in DOMAIN messages : AssistantReply(messages[i])}) <= 1

\* The step is a submit() call that got past the isLoading test
SubmitEntered == nSubs' = nSubs + 1 /\ sub'[nSubs'].pc # "rejected"

\* C37: a submit that passes the in-flight guard clears the interrupt and
\* the previous error and stores a fresh cancellation handle within the call
\* itself; and once a later submission has started, no step of an earlier
\* submission makes an error or an interrupt visible.
C37_EntryClearsPrevious ==
  [][/\ SubmitEntered =>
          /\ interrupt' = 0
          /\ sub'[nSubs'].pc = "fetching" =>
               /\ error' = None
               /\ abortControllerRef' = nSubs' /\ nSubs' \notin aborted'
          /\ sub'[nSubs'].pc = "done" => error' = "agent-not-found"
     /\ \A t \in Subs :
          (nSubs' = nSubs /\ sub'[t] # sub[t] /\ t < CurrentSub)
          => /\ error' \in {error, None}
             /\ interrupt' \in {interrupt, 0}]_vars

\* C38: with an assistantId that is not in the agent metadata, every submit()
\* ends Errored at once: error is set, no fetch is awaited and no response
\* read, the payload's messages are not appended, the thread-id callback is
\* not invoked, and isLoading is false.
C38_UnknownAssistantNoEffects ==
  assistantId \notin agentMetadata =>
    /\ \A s \in 1..nSubs :
         /\ sub[s].pc = "done" /\ sub[s].outcome = "errored"
         /\ sub[s].resp = "none" /\ sub[s].reader = "none"
         /\ sub[s].calls = <<>>
    /\ nSubs > 0 => error = "agent-not-found"
    /\ messages = <<>>
    /\ threadId = rendered.threadId
    /\ ~isLoading /\ abortControllerRef = 0

\* C38 reached: a submit() with an unknown assistantId has ended Errored
C38_Witness ==
  /\ assistantId = "invalid-agent" /\ nSubs = 1
  /\ sub[1].outcome = "errored" /\ error = "agent-not-found"

\* C39: setBranch can be called in every state with every argument, and a
\* call changes none of messages, values, error, interrupt, isLoading, the
\* stored cancellation handle, or any other field of the exposed context.
C39_SetBranchNoOp ==
  /\ [](\A b \in Branches :
          ENABLED (setBranch(b) /\ UNCHANGED <<pvars, fed, avars>>))
  /\ [][branchLogged' # branchLogged
          => /\ UNCHANGED <<messages, error, interrupt, isLoading,
                            abortControllerRef, aborted, sub, threadId>>
             /\ useLocalStream' = useLocalStream]_vars

\* C39 reached: setBranch('test-branch') was called while a submission was
\* streaming, with messages in state
C39_Witness ==
  /\ branchLogged = "test-branch" /\ isLoading /\ abortControllerRef = 1
  /\ sub[1].pc = "reading" /\ Len(messages) >= 2

\* The request in hand made POST throw before it built the streaming
\* response: its body is the JSON null, whose destructuring throws, or the
\* Executor's stream operation rejected when it was started
ThrewBeforeStream ==
  /\ nReqs > 0
  /\ \/ ~trimIsEmpty(pReq.agentId) /\ pReq.body = "null"
     \/ pInvoked = 1 /\ pPc = "responded"

\* C40: an exception raised before the streaming response is constructed,
\* the rejection of the Executor's stream operation included, is answered
\* with one JSON response of status 500 and error "Internal server error",
\* without an event-stream body or a thread-id header; and status 500 comes
\* about in no other way.
C40_InternalError500 ==
  /\ ThrewBeforeStream =>
       /\ pStatus = 500 /\ pJson = "Internal server error"
       /\ pPc = "responded"
       /\ pHeader = None /\ pBody = <<>> /\ pYielded = <<>>
  /\ pStatus = 500 => ThrewBeforeStream

\* C40 reached: the Executor's stream operation rejected for a request that
\* carried a thread id, answered 500 without header
C40_Witness ==
  /\ pInvoked = 1 /\ pStatus = 500 /\ pReq.threadId = "t1"
  /\ finalThreadId = "t1" /\ pHeader = None

\* C11: while a submission is in flight, stop() aborts its cancellation
\* handle, that is, abortControllerRef holds that submission's controller;
\* stated for the latest submission, made after every earlier one was stopped.
C11_StopAbortsInFlight ==
  \A s \in Subs :
    (s = nSubs /\ InFlight(s) /\ s \notin aborted
       /\ \A t \in 1..(s - 1) : t \in aborted)
    => abortControllerRef = s

\* C12: once stop() has aborted a submission, no chunk of that submission
\* changes messages or interrupt, even a chunk whose read had resolved before
\* stop() ran.
C12_AbortedNeverWrites ==
  [][\A s \in Subs :
       (s \in aborted /\ sub'[s].nread > sub[s].nread)
       => (messages' = messages /\ interrupt' = interrupt)]_vars

\* C13: stop() leaves isLoading false and no controller to abort, and a
\* stop() called in the state a stop() leaves aborts nothing and changes no
\* state.
C13_StopIdempotent ==
  [][\A raced \in BOOLEAN :
       stop(raced)
       => /\ ~isLoading' /\ abortControllerRef' = 0
          /\ (abortControllerRef = 0 /\ ~isLoading) => UNCHANGED vars]_vars

\* C13 reached: stop() has aborted a submission in flight, whose await has
\* not settled yet, so that a second stop() finds it already stopped
C13_Witness ==
  \E s \in Subs :
    /\ InFlight(s) /\ s \in aborted
    /\ abortControllerRef = 0 /\ ~isLoading

\* C14: a submission that ends by the AbortError of its fetch or of a chunk
\* read leaves error as it was.
C14_CancellationSilent ==
  [][\A s \in Subs :
       (sub[s].pc # "done" /\ sub'[s].pc = "done" /\ sub'[s].outcome = "aborted")
       => error' = error]_vars

\* C15: a response that is not ok, or that has no body, ends the submission
\* Errored: error is set, isLoading is false, onThreadId was not invoked, no
\* reader was acquired, and the message list holds the submitted payload only.
C15_BadResponseEndsErrored ==
  \A s \in Subs :
    sub[s].resp \in {"not-ok", "no-body"} =>
      /\ sub[s].pc = "done" /\ sub[s].outcome = "errored"
      /\ error = (IF sub[s].resp = "not-ok" THEN "api-request-failed"
                  ELSE "no-response-body")
      /\ ~isLoading
      /\ sub[s].calls = <<>> /\ threadId = sub[s].threadId
      /\ sub[s].reader = "none"
      /\ \A i \in DOMAIN messages :
           messages[i].src = "payload" /\ messages[i].turn = s

\* C15 reached: a response that is not ok and carries a thread-id header, to
\* a submission that supplied no thread id
C15_Witness ==
  \E s \in Subs :
    /\ sub[s].resp = "not-ok" /\ sub[s].header # None
    /\ sub[s].threadId = None /\ sub[s].pc = "done"

\* C14 reached: a submission aborted during a chunk read, after frames were
\* reconciled, has ended with no error set
C14_Witness ==
  \E s \in Subs :
    /\ sub[s].pc = "done" /\ sub[s].outcome = "aborted"
    /\ sub[s].reader = "released" /\ sub[s].parsed /\ error = None
====
